---- MODULE Spec2Model ----
(***************************************************************************)
(* Model of the two trace-plotting tools of the repository:                *)
(*   plot.py       - parses one curl trace log and plots it                *)
(*   run_traces.py - collects N traces through trace.sh, parses each with  *)
(*                   parse_log and overlays them on one chart              *)
(*                                                                         *)
(* A log line is abstracted to what the two regular expressions can see:   *)
(* whether it starts with a timestamp, whether it is a "Recv data" line,   *)
(* the text of its timestamp fields and its byte count.                    *)
(***************************************************************************)
EXTENDS Integers, Sequences, FiniteSets, TLC

\* ------------------------------------------------------------------ bounds
\* longest log file handed to a parser
MaxLen == 3
\* largest <N> given on the command line of run_traces.py
MaxRuns == 2

\* ------------------------------------------------------------ input domains
\* timestamp texts that match \d{2}:\d{2}:\d{2}\.\d{6}; the last one matches
\* the pattern but is no time of day (times are kept within the first hour
\* so that their microsecond counts stay within 32 bits)
TsTexts ==
  { [h |-> 0, m |-> 10, s |-> 0, f |-> 0],
    [h |-> 0, m |-> 10, s |-> 0, f |-> 500000],
    [h |-> 25, m |-> 61, s |-> 61, f |-> 0] }

\* byte counts of Recv data lines
ByteCounts == {0, 1024, 12 * 1024 * 1024}

\* the lines a log is made of
OtherLine == [kind |-> "other", ts |-> [h |-> 0, m |-> 0, s |-> 0, f |-> 0], bytes |-> 0]
TsLines == { [kind |-> "ts", ts |-> t, bytes |-> 0] : t \in TsTexts }
DataLines == { [kind |-> "data", ts |-> t, bytes |-> b] : t \in TsTexts, b \in ByteCounts }
Lines == {OtherLine} \cup TsLines \cup DataLines

\* all log files of at most MaxLen lines
Logs == UNION { [1..n -> Lines] : n \in 0..MaxLen }

\* ------------------------------------------------------------ regexes, time
\* ts_rx / ANY_TS: the line starts with a timestamp
ts_rx_mutant_any_line(line) == TRUE
ts_rx_mutant_whole_line(line) == line.kind = "ts"
ts_rx(line) == line.kind \in {"ts", "data"}

\* data_rx / RECV_DATA: timestamp, "<=", "Recv data,", byte count, "bytes"
data_rx(line) == line.kind = "data"

\* datetime.strptime(text, '%H:%M:%S.%f') raises ValueError unless the fields
\* are a time of day
strptime_ok(t) == t.h <= 23 /\ t.m <= 59 /\ t.s <= 59

\* the parsed datetime, as microseconds since midnight (the date is always
\* 1900-01-01)
strptime(t) == ((t.h * 60 + t.m) * 60 + t.s) * 1000000 + t.f

\* (ts - t0).total_seconds(), kept in microseconds
elapsed_mutant_swapped(ts, tzero) == tzero - ts
elapsed(ts, tzero) == ts - tzero

\* t0 = None
None == -1

\* 12 * 1024 * 1024, the early-stop threshold of plot.py
Threshold == 12 * 1024 * 1024

\* ------------------------------------------------------- the parsers' state
\* the local variables of a parse: t0, times, totals, the running byte total
\* and how the loop body ended ("ok", "break", or the exception raised)
ParseState(tzero, tms, tots, total, status) ==
  [t0 |-> tzero, times |-> tms, totals |-> tots, total |-> total, status |-> status]

\* times, totals = [], [] ; t0, total_bytes = None, 0
InitialParse == ParseState(None, <<>>, <<>>, 0, "ok")

Raised(st) == st.status \in {"ValueError", "TypeError"}

\* ------------------------------------------------------------------ plot.py
\* (plot_anchor without the two appends)
plot_anchor_mutant_no_sample(st, line) ==
  IF st.t0 = None /\ ts_rx(line)
  THEN IF strptime_ok(line.ts)
       THEN [st EXCEPT !.t0 = strptime(line.ts)]
       ELSE [st EXCEPT !.status = "ValueError"]
  ELSE st

\* 1) the first timestamp sets t0 and appends the (0, 0) sample
plot_anchor(st, line) ==
  IF st.t0 = None /\ ts_rx(line)
  THEN IF strptime_ok(line.ts)
       THEN [st EXCEPT !.t0 = strptime(line.ts),
                       !.times = Append(@, elapsed(strptime(line.ts), strptime(line.ts))),
                       !.totals = Append(@, 0)]
       ELSE [st EXCEPT !.status = "ValueError"]
  ELSE st

\* (plot_data appending the line's own byte count instead of the total)
plot_data_mutant_no_sum(st, line) ==
  IF ~data_rx(line) THEN st
  ELSE IF ~strptime_ok(line.ts) THEN [st EXCEPT !.status = "ValueError"]
  ELSE IF st.t0 = None THEN [st EXCEPT !.status = "TypeError"]
  ELSE LET total == st.total + line.bytes
       IN [st EXCEPT !.total = total,
                     !.times = Append(@, elapsed(strptime(line.ts), st.t0)),
                     !.totals = Append(@, line.bytes),
                     !.status = IF total > Threshold THEN "break" ELSE "ok"]

\* (plot_data without the break)
plot_data_mutant_no_break(st, line) ==
  IF ~data_rx(line) THEN st
  ELSE IF ~strptime_ok(line.ts) THEN [st EXCEPT !.status = "ValueError"]
  ELSE IF st.t0 = None THEN [st EXCEPT !.status = "TypeError"]
  ELSE LET total == st.total + line.bytes
       IN [st EXCEPT !.total = total,
                     !.times = Append(@, elapsed(strptime(line.ts), st.t0)),
                     !.totals = Append(@, total)]

\* (plot_data stopping as soon as the total reaches the threshold)
plot_data_mutant_stop_at_equal(st, line) ==
  IF ~data_rx(line) THEN st
  ELSE IF ~strptime_ok(line.ts) THEN [st EXCEPT !.status = "ValueError"]
  ELSE IF st.t0 = None THEN [st EXCEPT !.status = "TypeError"]
  ELSE LET total == st.total + line.bytes
       IN [st EXCEPT !.total = total,
                     !.times = Append(@, elapsed(strptime(line.ts), st.t0)),
                     !.totals = Append(@, total),
                     !.status = IF total >= Threshold THEN "break" ELSE "ok"]

\* 2) a Recv data line appends (elapsed, total_bytes) and stops the loop once
\*    the total exceeds the threshold
plot_data(st, line) ==
  IF ~data_rx(line) THEN st
  ELSE IF ~strptime_ok(line.ts) THEN [st EXCEPT !.status = "ValueError"]
  ELSE IF st.t0 = None THEN [st EXCEPT !.status = "TypeError"]
  ELSE LET total == st.total + line.bytes
       IN [st EXCEPT !.total = total,
                     !.times = Append(@, elapsed(strptime(line.ts), st.t0)),
                     !.totals = Append(@, total),
                     !.status = IF total > Threshold THEN "break" ELSE "ok"]

\* (the loop body with the anchor line not looked at again as a data line)
plot_body_mutant_anchor_only(st, line) ==
  LET a == plot_anchor(st, line)
  IN IF Raised(a) \/ a.t0 # st.t0 THEN a ELSE plot_data(a, line)

\* the body of "for line in f" in plot.py
plot_body(st, line) ==
  LET a == plot_anchor(st, line)
  IN IF Raised(a) THEN a ELSE plot_data(a, line)

\* ------------------------------------------------------------ run_traces.py
\* (parse_log_anchor without the "t0 is None" test)
parse_log_anchor_mutant_reanchor(st, line) ==
  IF ts_rx(line)
  THEN IF strptime_ok(line.ts)
       THEN [st EXCEPT !.t0 = strptime(line.ts)]
       ELSE [st EXCEPT !.status = "ValueError"]
  ELSE st

\* the first timestamp sets t0; nothing is appended
parse_log_anchor(st, line) ==
  IF st.t0 = None /\ ts_rx(line)
  THEN IF strptime_ok(line.ts)
       THEN [st EXCEPT !.t0 = strptime(line.ts)]
       ELSE [st EXCEPT !.status = "ValueError"]
  ELSE st

\* (parse_log_data skipping a line whose time does not parse)
parse_log_data_mutant_skip_bad(st, line) ==
  IF ~data_rx(line) \/ ~strptime_ok(line.ts) THEN st
  ELSE IF st.t0 = None THEN [st EXCEPT !.status = "TypeError"]
  ELSE LET total == st.total + line.bytes
       IN [st EXCEPT !.total = total,
                     !.times = Append(@, elapsed(strptime(line.ts), st.t0)),
                     !.totals = Append(@, total)]

\* (parse_log_data taking no more data once the total is over the threshold)
parse_log_data_mutant_capped(st, line) ==
  IF ~data_rx(line) \/ st.total > Threshold THEN st
  ELSE IF ~strptime_ok(line.ts) THEN [st EXCEPT !.status = "ValueError"]
  ELSE IF st.t0 = None THEN [st EXCEPT !.status = "TypeError"]
  ELSE LET total == st.total + line.bytes
       IN [st EXCEPT !.total = total,
                     !.times = Append(@, elapsed(strptime(line.ts), st.t0)),
                     !.totals = Append(@, total)]

\* a Recv data line appends (elapsed, cum); the loop never breaks
parse_log_data(st, line) ==
  IF ~data_rx(line) THEN st
  ELSE IF ~strptime_ok(line.ts) THEN [st EXCEPT !.status = "ValueError"]
  ELSE IF st.t0 = None THEN [st EXCEPT !.status = "TypeError"]
  ELSE LET total == st.total + line.bytes
       IN [st EXCEPT !.total = total,
                     !.times = Append(@, elapsed(strptime(line.ts), st.t0)),
                     !.totals = Append(@, total)]

\* the body of "for line in f" in parse_log
parse_log_body(st, line) ==
  LET a == parse_log_anchor(st, line)
  IN IF Raised(a) THEN a ELSE parse_log_data(a, line)

\* parse_log(path) on a file of the given content: the loop run to its end,
\* or to the first exception
RECURSIVE parse_log_from(_, _, _)
parse_log_from(st, content, i) ==
  IF i > Len(content) \/ Raised(st) THEN st
  ELSE parse_log_from(parse_log_body(st, content[i]), content, i + 1)

parse_log(content) == parse_log_from(InitialParse, content, 1)

\* ALLOWED_FILES
ALLOWED_FILES == {"1K.bin", "1M.bin", "1G.bin"}

\* (log_path without the run index)
log_path_mutant_no_index(file_name, run_idx) == <<"traces", file_name, 1>>

\* TRACE_DIR / f"{file_name}_{run_idx}.log"
log_path(file_name, run_idx) == <<"traces", file_name, run_idx>>

\* int(sys.argv[2]): the text is an integer literal or int() raises ValueError
int_ok(arg) == arg.isint
int(arg) == arg.val

\* --------------------------------------------------------------- the inputs
\* the texts given as <N>
NArgs == {[isint |-> FALSE, val |-> 0]} \cup { [isint |-> TRUE, val |-> v] : v \in (-1)..MaxRuns }
\* the texts given as <FILE>
FileArgs == {"1M.bin", "2M.bin"}
\* the texts given as [outfile.png]
OutArgs == {"", "out.png"}

NoArgs == [argc |-> 1, file |-> "", n |-> [isint |-> FALSE, val |-> 0], out |-> ""]

\* the logs trace.sh leaves behind
SampleLogs ==
  { <<>>,
    << OtherLine >>,
    << [kind |-> "ts", ts |-> [h |-> 0, m |-> 10, s |-> 0, f |-> 0], bytes |-> 0],
       [kind |-> "data", ts |-> [h |-> 0, m |-> 10, s |-> 0, f |-> 500000], bytes |-> 1024] >>,
    << [kind |-> "data", ts |-> [h |-> 0, m |-> 10, s |-> 0, f |-> 0], bytes |-> 12 * 1024 * 1024],
       [kind |-> "data", ts |-> [h |-> 0, m |-> 10, s |-> 0, f |-> 500000], bytes |-> 1024],
       [kind |-> "data", ts |-> [h |-> 0, m |-> 10, s |-> 0, f |-> 500000], bytes |-> 1024] >>,
    << [kind |-> "data", ts |-> [h |-> 25, m |-> 61, s |-> 61, f |-> 0], bytes |-> 1024] >> }

\* -------------------------------------------------------------------- state
VARIABLES
  prog,            \* which entry point runs: "plot", "parse_log" or "main"
  pc,              \* where control is
  argv,            \* the command line
  lines,           \* the content of the file being parsed
  pos,             \* how many of its lines have been read
  t0, times, totals, total_bytes,   \* the parser's local variables
  trace_sh_exists, \* TRACE_SH.exists()
  n_runs,          \* main: n_runs
  mkdir_done,      \* run_trace has created traces/
  files,           \* the log files under traces/, by path
  invoked,         \* the trace.sh invocations so far, in order
  running,         \* a trace.sh invocation has not returned yet
  rcs,             \* the exit statuses trace.sh has returned so far, in order
  logs,            \* main: the log paths collected so far
  idx,             \* main: the index of the next log to parse
  plotted,         \* the series handed to plt.step, in order
  output,          \* "none", "saved" or "shown"
  exit_code,       \* -1 while the process runs, then its exit status
  exc              \* the exception that ended the process, or "none"

vars == << prog, pc, argv, lines, pos, t0, times, totals, total_bytes,
           trace_sh_exists, n_runs, mkdir_done, files, invoked, running, rcs,
           logs, idx, plotted, output, exit_code, exc >>

parser_vars == << lines, pos, t0, times, totals, total_bytes >>
runner_vars == << trace_sh_exists, n_runs, mkdir_done, files, invoked, running, rcs, logs, idx >>

\* the parser's variables as one record, and back
Current == ParseState(t0, times, totals, total_bytes, "ok")

Store(st) ==
  /\ t0' = st.t0
  /\ times' = st.times
  /\ totals' = st.totals
  /\ total_bytes' = st.total

\* ---------------------------------------------------------------------- Init
InitCommon ==
  /\ pos = 0
  /\ t0 = None /\ times = <<>> /\ totals = <<>> /\ total_bytes = 0
  /\ n_runs = 0
  /\ mkdir_done = FALSE
  /\ files = <<>>
  /\ invoked = <<>>
  /\ running = FALSE
  /\ rcs = <<>>
  /\ logs = <<>>
  /\ idx = 1
  /\ plotted = <<>>
  /\ output = "none"
  /\ exit_code = -1
  /\ exc = "none"

\* python plot.py [logfile [outfile.png]]
InitPlot ==
  /\ prog = "plot"
  /\ pc = "start"
  /\ \/ argv = NoArgs /\ lines = <<>>
     \/ /\ argv \in { [argc |-> 2, file |-> "trace.log", n |-> NoArgs.n, out |-> ""] }
                    \cup { [argc |-> 3, file |-> "trace.log", n |-> NoArgs.n, out |-> o] : o \in OutArgs }
        /\ lines \in Logs
  /\ trace_sh_exists = FALSE
  /\ InitCommon

\* parse_log(path) called on any log file
InitParseLog ==
  /\ prog = "parse_log"
  /\ pc = "loop"
  /\ argv = NoArgs
  /\ lines \in Logs
  /\ trace_sh_exists = FALSE
  /\ InitCommon

\* python run_traces.py [FILE [N [outfile.png]]]
InitMain ==
  /\ prog = "main"
  /\ pc = "start"
  /\ argv \in {NoArgs}
              \cup { [argc |-> 3, file |-> f, n |-> n, out |-> ""] : f \in FileArgs, n \in NArgs }
              \cup { [argc |-> 4, file |-> f, n |-> n, out |-> o] : f \in FileArgs, n \in NArgs, o \in OutArgs }
  /\ lines = <<>>
  /\ trace_sh_exists \in BOOLEAN
  /\ InitCommon

Init == InitPlot \/ InitParseLog \/ InitMain

\* ----------------------------------------------------------- plot.py actions
\* if len(sys.argv) < 2: sys.exit(usage); otherwise the log file is opened
plot_usage ==
  /\ prog = "plot" /\ pc = "start"
  /\ IF argv.argc < 2
     THEN pc' = "usage_exit" /\ exit_code' = 1
     ELSE pc' = "loop" /\ exit_code' = exit_code
  /\ UNCHANGED << prog, argv, parser_vars, runner_vars, plotted, output, exc >>

\* one pass of "for line in f": the next line is read and processed
plot_line ==
  /\ prog = "plot" /\ pc = "loop"
  /\ pos < Len(lines)
  /\ LET st == plot_body(Current, lines[pos + 1])
     IN /\ Store(st)
        /\ pos' = pos + 1
        /\ pc' = IF Raised(st) THEN "raised"
                 ELSE IF st.status = "break" THEN "plot" ELSE "loop"
        /\ exit_code' = IF Raised(st) THEN 1 ELSE exit_code
        /\ exc' = IF Raised(st) THEN st.status ELSE exc
  /\ UNCHANGED << prog, argv, lines, runner_vars, plotted, output >>

\* the file is exhausted: the loop ends
plot_eof ==
  /\ prog = "plot" /\ pc = "loop"
  /\ pos = Len(lines)
  /\ pc' = "plot"
  /\ UNCHANGED << prog, argv, parser_vars, runner_vars, plotted, output, exit_code, exc >>

\* plt.step(times, totals, where='post')
plot_step ==
  /\ prog = "plot" /\ pc = "plot"
  /\ plotted' = Append(plotted, [label |-> <<"trace", 0>>, t |-> times, b |-> totals])
  /\ pc' = "output"
  /\ UNCHANGED << prog, argv, parser_vars, runner_vars, output, exit_code, exc >>

\* if save_to: plt.savefig(save_to) else: plt.show()
plot_output ==
  /\ prog = "plot" /\ pc = "output"
  /\ output' = IF argv.argc > 2 /\ argv.out # "" THEN "saved" ELSE "shown"
  /\ pc' = "done"
  /\ exit_code' = 0
  /\ UNCHANGED << prog, argv, parser_vars, runner_vars, plotted, exc >>

\* ---------------------------------------------------- parse_log, line by line
\* one pass of "for line in f" in parse_log
parse_log_line ==
  /\ prog = "parse_log" /\ pc = "loop"
  /\ pos < Len(lines)
  /\ LET st == parse_log_body(Current, lines[pos + 1])
     IN /\ Store(st)
        /\ pos' = pos + 1
        /\ pc' = IF Raised(st) THEN "raised" ELSE "loop"
        /\ exit_code' = IF Raised(st) THEN 1 ELSE exit_code
        /\ exc' = IF Raised(st) THEN st.status ELSE exc
  /\ UNCHANGED << prog, argv, lines, runner_vars, plotted, output >>

\* return times, totals
parse_log_return ==
  /\ prog = "parse_log" /\ pc = "loop"
  /\ pos = Len(lines)
  /\ pc' = "return"
  /\ UNCHANGED << prog, argv, parser_vars, runner_vars, plotted, output, exit_code, exc >>

\* ------------------------------------------------------ run_traces.py actions
\* (the checks of main without the ALLOWED_FILES test)
main_args_ok_mutant_no_allow_list ==
  /\ argv.argc >= 3
  /\ int_ok(argv.n)
  /\ int(argv.n) > 0
  /\ trace_sh_exists

\* the checks main makes before it collects anything
main_args_ok ==
  /\ argv.argc >= 3
  /\ int_ok(argv.n)
  /\ int(argv.n) > 0
  /\ argv.file \in ALLOWED_FILES
  /\ trace_sh_exists

main_validate ==
  /\ prog = "main" /\ pc = "start"
  /\ IF main_args_ok
     THEN pc' = "collect" /\ n_runs' = int(argv.n) /\ exit_code' = exit_code
     ELSE pc' = "usage_exit" /\ n_runs' = n_runs /\ exit_code' = 1
  /\ UNCHANGED << prog, argv, parser_vars, trace_sh_exists, mkdir_done, files,
                  invoked, running, rcs, logs, idx, plotted, output, exc >>

\* the side effect of one trace.sh invocation on the files under traces/:
\* a run that succeeds leaves its log at the path it was given; a run that
\* fails may have written a log there or not
trace_sh(fs, path, rc, wrote, content) ==
  IF rc = 0 \/ wrote THEN (path :> content) @@ fs ELSE fs

\* (subprocess.run without check=True)
check_raises_mutant_unchecked(rc) == FALSE

\* subprocess.run(..., check=True) raises CalledProcessError on a non-zero
\* exit status
check_raises(rc) == rc # 0

\* run_trace up to the moment subprocess.run starts trace.sh
run_trace_call ==
  /\ prog = "main" /\ pc = "collect"
  /\ ~running
  /\ Len(logs) < n_runs
  /\ mkdir_done' = TRUE
  /\ invoked' = Append(invoked, [file |-> argv.file, path |-> log_path(argv.file, Len(logs) + 1)])
  /\ running' = TRUE
  /\ UNCHANGED << prog, pc, argv, parser_vars, trace_sh_exists, n_runs, files,
                  rcs, logs, idx, plotted, output, exit_code, exc >>

\* (run_trace calling trace.sh again for the same index after a failure)
run_trace_return_mutant_retry ==
  /\ prog = "main" /\ pc = "collect"
  /\ running
  /\ \E rc \in {0, 1}, wrote \in BOOLEAN, content \in SampleLogs :
       LET path == invoked[Len(invoked)].path
       IN /\ files' = trace_sh(files, path, rc, wrote, content)
          /\ running' = FALSE
          /\ rcs' = Append(rcs, rc)
          /\ logs' = IF rc = 0 THEN Append(logs, path) ELSE logs
          /\ pc' = IF rc = 0 /\ Len(logs) + 1 = n_runs THEN "parse" ELSE "collect"
          /\ exit_code' = exit_code /\ exc' = exc
  /\ UNCHANGED << prog, argv, parser_vars, trace_sh_exists, n_runs, mkdir_done,
                  invoked, idx, plotted, output >>

\* subprocess.run(..., check=True) returns: a non-zero status raises
\* CalledProcessError, otherwise run_trace returns the path and main goes on
\* to the next run, or to the plot after the last one
run_trace_return ==
  /\ prog = "main" /\ pc = "collect"
  /\ running
  /\ \E rc \in {0, 1}, wrote \in BOOLEAN, content \in SampleLogs :
       LET path == invoked[Len(invoked)].path
       IN /\ files' = trace_sh(files, path, rc, wrote, content)
          /\ running' = FALSE
          /\ rcs' = Append(rcs, rc)
          /\ IF ~check_raises(rc)
             THEN /\ logs' = Append(logs, path)
                  /\ pc' = IF Len(logs) + 1 = n_runs THEN "parse" ELSE "collect"
                  /\ exit_code' = exit_code /\ exc' = exc
             ELSE /\ logs' = logs
                  /\ pc' = "raised"
                  /\ exit_code' = 1 /\ exc' = "CalledProcessError"
  /\ UNCHANGED << prog, argv, parser_vars, trace_sh_exists, n_runs, mkdir_done,
                  invoked, idx, plotted, output >>

\* (the overlay loop parsing the first log on every pass)
main_plot_log_mutant_first_log ==
  /\ prog = "main" /\ pc = "parse"
  /\ idx <= Len(logs)
  /\ LET st == parse_log(files[logs[1]])
     IN IF Raised(st)
        THEN pc' = "raised" /\ exit_code' = 1 /\ exc' = st.status /\ plotted' = plotted /\ idx' = idx
        ELSE /\ plotted' = Append(plotted, [label |-> <<"trace", idx>>, t |-> st.times, b |-> st.totals])
             /\ idx' = idx + 1
             /\ pc' = pc /\ exit_code' = exit_code /\ exc' = exc
  /\ UNCHANGED << prog, argv, parser_vars, trace_sh_exists, n_runs, mkdir_done,
                  files, invoked, running, rcs, logs, output >>

\* one pass of "for idx, log in enumerate(logs, 1)": parse_log, then plt.step
main_plot_log ==
  /\ prog = "main" /\ pc = "parse"
  /\ idx <= Len(logs)
  /\ LET st == parse_log(files[logs[idx]])
     IN IF Raised(st)
        THEN pc' = "raised" /\ exit_code' = 1 /\ exc' = st.status /\ plotted' = plotted /\ idx' = idx
        ELSE /\ plotted' = Append(plotted, [label |-> <<"trace", idx>>, t |-> st.times, b |-> st.totals])
             /\ idx' = idx + 1
             /\ pc' = pc /\ exit_code' = exit_code /\ exc' = exc
  /\ UNCHANGED << prog, argv, parser_vars, trace_sh_exists, n_runs, mkdir_done,
                  files, invoked, running, rcs, logs, output >>

\* if out_png: plt.savefig(out_png) else: plt.show()
main_output ==
  /\ prog = "main" /\ pc = "parse"
  /\ idx > Len(logs)
  /\ output' = IF argv.argc > 3 THEN "saved" ELSE "shown"
  /\ pc' = "done"
  /\ exit_code' = 0
  /\ UNCHANGED << prog, argv, parser_vars, runner_vars, plotted, exc >>

Next ==
  \/ plot_usage
  \/ plot_line
  \/ plot_eof
  \/ plot_step
  \/ plot_output
  \/ parse_log_line
  \/ parse_log_return
  \/ main_validate
  \/ run_trace_call
  \/ run_trace_return
  \/ main_plot_log
  \/ main_output

Spec == Init /\ [][Next]_vars

\* run_traces.py alone, run to its end: the interpreter always takes the next
\* step of main, and every trace.sh invocation returns
NextMain ==
  \/ main_validate
  \/ run_trace_call
  \/ run_trace_return
  \/ main_plot_log
  \/ main_output

SpecMain == InitMain /\ [][NextMain]_vars /\ WF_vars(NextMain)

\* ============================================================== properties
\* what a log holds, read off the file independently of the parsers
RECURSIVE NData(_, _)
\* the number of Recv data lines among the first n lines
NData(log, n) ==
  IF n = 0 THEN 0 ELSE NData(log, n - 1) + (IF data_rx(log[n]) THEN 1 ELSE 0)

RECURSIVE SumData(_, _)
\* the sum of the byte counts of the Recv data lines among the first n lines
SumData(log, n) ==
  IF n = 0 THEN 0 ELSE SumData(log, n - 1) + (IF data_rx(log[n]) THEN log[n].bytes ELSE 0)

HasTs(log) == \E i \in 1..Len(log) : log[i].kind # "other"

\* the index of the first line that starts with a timestamp (Len + 1: none)
FirstTs(log) ==
  IF HasTs(log)
  THEN CHOOSE i \in 1..Len(log) : log[i].kind # "other" /\ \A k \in 1..(i - 1) : log[k].kind = "other"
  ELSE Len(log) + 1

\* the index in the file of the j-th Recv data line
DataIdx(log, j) == CHOOSE k \in 1..Len(log) : log[k].kind = "data" /\ NData(log, k) = j

\* the timestamp of a line as microseconds since midnight
Micros(line) == ((line.ts.h * 60 + line.ts.m) * 60 + line.ts.s) * 1000000 + line.ts.f

\* the parse is under way or over, and raised nothing
Parsing == prog \in {"plot", "parse_log"} /\ pc \in {"loop", "plot", "output", "done", "return"}

\* the samples the parser puts before the data samples: plot.py's (0, 0)
Lead == IF prog = "plot" /\ pos >= FirstTs(lines) THEN 1 ELSE 0

\* C1: parse_log returns, for every log that holds a timestamp-prefixed line, a
\* series of 1 + (number of data lines) samples whose first sample is (0, 0).
C1_ParseLogStartsAtAnchor ==
  (prog = "parse_log" /\ pc = "return" /\ HasTs(lines))
    => /\ Len(times) = 1 + NData(lines, Len(lines))
       /\ Len(totals) = 1 + NData(lines, Len(lines))
       /\ times[1] = 0 /\ totals[1] = 0

\* C2: in plot.py the (0, 0) sample is appended when the first
\* timestamp-prefixed line is read, and a log that holds such a line and whose
\* total never exceeds 12 MiB ends as a series of 1 + (number of data lines)
\* samples that starts with (0, 0).
C2_PlotSeriesLength ==
  (prog = "plot" /\ Parsing)
    => /\ IF pos >= FirstTs(lines)
          THEN /\ Len(times) = 1 + NData(lines, pos)
               /\ Len(totals) = 1 + NData(lines, pos)
               /\ times[1] = 0 /\ totals[1] = 0
          ELSE times = <<>> /\ totals = <<>>
       /\ (pc # "loop" /\ HasTs(lines) /\ SumData(lines, Len(lines)) <= 12 * 1024 * 1024)
            => /\ Len(times) = 1 + NData(lines, Len(lines))
               /\ Len(totals) = 1 + NData(lines, Len(lines))
               /\ times[1] = 0 /\ totals[1] = 0

C2_Witness ==
  /\ prog = "plot" /\ pc = "done"
  /\ Len(lines) = 3 /\ lines[1].kind = "other" /\ lines[2].kind = "ts"
  /\ lines[3].kind = "data" /\ lines[3].bytes = 1024
  /\ Len(times) = 2 /\ totals = <<0, 1024>>

\* C3: in both parsers, after any prefix of the log, the cumulative byte values
\* are non-decreasing and the value appended for the j-th data line is the sum
\* of the byte counts of data lines 1..j in file order; the same holds of every
\* series run_traces.py plots.
C3_CumulativeIsRunningSum ==
  /\ Parsing
       => /\ Len(totals) = Lead + NData(lines, pos)
          /\ \A j \in 1..NData(lines, pos) :
               totals[Lead + j] = SumData(lines, DataIdx(lines, j))
          /\ \A i \in 1..(Len(totals) - 1) : totals[i] <= totals[i + 1]
  /\ prog = "main"
       => \A k \in 1..Len(plotted) :
            LET log == files[logs[k]]
            IN /\ Len(plotted[k].b) = NData(log, Len(log))
               /\ \A j \in 1..Len(plotted[k].b) :
                    plotted[k].b[j] = SumData(log, DataIdx(log, j))

C3_Witness ==
  /\ prog = "parse_log" /\ pc = "loop" /\ pos = 3 /\ Len(lines) = 3
  /\ lines[1].kind = "data" /\ lines[2].kind = "ts" /\ lines[3].kind = "data"
  /\ totals = <<1024, 2048>>

\* C4: in both parsers t0 is the timestamp of the first line in file order that
\* starts with a timestamp, whatever timestamp-prefixed lines follow, and every
\* sample recorded for a data line has elapsed time (its timestamp - t0).
C4_AnchorIsFirstTimestamp ==
  Parsing
    => /\ t0 = (IF pos >= FirstTs(lines) THEN Micros(lines[FirstTs(lines)]) ELSE -1)
       /\ Len(times) = Lead + NData(lines, pos)
       /\ \A j \in 1..NData(lines, pos) :
            times[Lead + j] = Micros(lines[DataIdx(lines, j)]) - Micros(lines[FirstTs(lines)])

C4_Witness ==
  /\ prog = "parse_log" /\ pc = "return" /\ Len(lines) = 3
  /\ lines[1].kind = "ts" /\ lines[2].kind = "ts" /\ lines[3].kind = "data"
  /\ Micros(lines[1]) < Micros(lines[2]) /\ Micros(lines[2]) = Micros(lines[3])
  /\ t0 = Micros(lines[1]) /\ times = <<500000>>

\* the timestamps of the anchor line and of the data lines among the first n
\* lines never go back in file order
TimestampsAscend(log, n) ==
  \A j \in 1..NData(log, n) :
    /\ Micros(log[FirstTs(log)]) <= Micros(log[DataIdx(log, j)])
    /\ j > 1 => Micros(log[DataIdx(log, j - 1)]) <= Micros(log[DataIdx(log, j)])

\* C5, as stated: for every series either parser produces from any sequence of
\* log lines, the elapsed values are non-decreasing along the series.
C5_ElapsedNonDecreasing ==
  Parsing => \A i \in 1..(Len(times) - 1) : times[i] <= times[i + 1]

\* C5, amended: the elapsed values are non-decreasing along the series
\* whenever the timestamps of the anchor line and of the data lines are
\* non-decreasing in file order.
C5_ElapsedFollowsTimestamps ==
  (Parsing /\ TimestampsAscend(lines, pos))
    => \A i \in 1..(Len(times) - 1) : times[i] <= times[i + 1]

C5_Witness ==
  /\ prog = "parse_log" /\ pc = "return" /\ Len(lines) = 3
  /\ lines[1].kind = "ts" /\ lines[2].kind = "data" /\ lines[3].kind = "data"
  /\ Micros(lines[1]) = Micros(lines[2]) /\ Micros(lines[2]) < Micros(lines[3])
  /\ times = <<0, 500000>>

\* the index of the line at which the running total first exceeds 12 MiB
\* (Len + 1: it never does)
CrossIdx(log) ==
  IF \E p \in 1..Len(log) : SumData(log, p) > 12 * 1024 * 1024
  THEN CHOOSE p \in 1..Len(log) :
         /\ SumData(log, p) > 12 * 1024 * 1024
         /\ \A q \in 1..(p - 1) : SumData(log, q) <= 12 * 1024 * 1024
  ELSE Len(log) + 1

\* C6: in plot.py, when the total first exceeds 12 MiB at the k-th data line,
\* the loop ends right after that sample is appended: no later line is read
\* and the series ends with the k-th data sample.
C6_EarlyStop ==
  (prog = "plot" /\ pc \notin {"start", "usage_exit"})
    => /\ pos <= CrossIdx(lines)
       /\ pc = "loop" => total_bytes <= 12 * 1024 * 1024
       /\ (Parsing /\ pos = CrossIdx(lines))
            => /\ pc # "loop"
               /\ Len(totals) = 1 + NData(lines, CrossIdx(lines))
               /\ Len(times) = Len(totals)
               /\ totals[Len(totals)] = SumData(lines, CrossIdx(lines))
       /\ (pc \in {"plot", "output", "done"} /\ CrossIdx(lines) <= Len(lines))
            => pos = CrossIdx(lines)

C6_Witness ==
  /\ prog = "plot" /\ pc = "done" /\ Len(lines) = 3
  /\ pos = 2 /\ lines[3].kind = "data" /\ lines[3].bytes = 1024
  /\ totals = <<0, 12 * 1024 * 1024, 12 * 1024 * 1024 + 1024>>

\* C7: in both parsers a log with no line, or with no line that starts with a
\* timestamp, leaves t0 unset and the series empty and raises nothing, and
\* the empty series is what is plotted.
C7_NoAnchorEmptySeries ==
  /\ (prog \in {"plot", "parse_log"} /\ ~HasTs(lines))
       => /\ pc # "raised"
          /\ t0 = -1 /\ times = <<>> /\ totals = <<>>
          /\ \A k \in 1..Len(plotted) : plotted[k].t = <<>> /\ plotted[k].b = <<>>
  /\ prog = "main"
       => /\ \A k \in 1..Len(plotted) :
               ~HasTs(files[logs[k]]) => plotted[k].t = <<>> /\ plotted[k].b = <<>>
          /\ (pc = "raised" /\ \A k \in 1..Len(rcs) : rcs[k] = 0)
               => HasTs(files[logs[idx]])

C7_Witness ==
  /\ prog = "plot" /\ pc = "done" /\ Len(lines) = 2 /\ ~HasTs(lines)
  /\ Len(plotted) = 1 /\ plotted[1].t = <<>> /\ exit_code = 0

\* every trace.sh invocation that has returned so far exited with status 0
AllSucceeded == \A k \in 1..Len(rcs) : rcs[k] = 0

\* the path run_traces.py is to give run i
RunPath(i) == <<"traces", argv.file, i>>

\* C8: with valid arguments, run_count = N and every collector run
\* succeeding, trace.sh is invoked exactly N times, one at a time, for the run
\* indices 1..N in ascending order and with pairwise distinct output paths
\* traces/{file}_{i}.log; the chart then holds exactly N series, the i-th
\* labelled "trace i".
C8_SequentialRuns ==
  (prog = "main" /\ AllSucceeded)
    => /\ Len(invoked) <= n_runs
       /\ Len(invoked) = Len(rcs) + (IF running THEN 1 ELSE 0)
       /\ \A i \in 1..Len(invoked) : invoked[i] = [file |-> argv.file, path |-> RunPath(i)]
       /\ \A i, j \in 1..Len(invoked) : i # j => invoked[i].path # invoked[j].path
       /\ pc \in {"parse", "done"}
            => /\ argv.n.val = n_runs
               /\ Len(invoked) = n_runs /\ ~running
               /\ logs = [i \in 1..n_runs |-> RunPath(i)]
       /\ pc = "done"
            => /\ Len(plotted) = n_runs
               /\ \A i \in 1..n_runs : plotted[i].label = <<"trace", i>>

C8_Witness ==
  /\ prog = "main" /\ pc = "done" /\ n_runs = 2 /\ rcs = <<0, 0>>
  /\ Len(invoked) = 2 /\ Len(plotted) = 2 /\ plotted[2].label = <<"trace", 2>>

\* C9 (state part): once an invocation of trace.sh has returned a non-zero
\* status, it is the last invocation (no later index, no retry), the tool has
\* ended with an error, and nothing was parsed, plotted, shown or saved.
C9_AbortState ==
  (prog = "main" /\ ~AllSucceeded)
    => /\ rcs[Len(rcs)] # 0
       /\ \A k \in 1..(Len(rcs) - 1) : rcs[k] = 0
       /\ pc = "raised" /\ exit_code = 1
       /\ ~running /\ Len(invoked) = Len(rcs)
       /\ \A k \in 1..Len(invoked) : invoked[k].path = RunPath(k)
       /\ logs = [k \in 1..(Len(rcs) - 1) |-> RunPath(k)]
       /\ \A k \in 1..Len(logs) : logs[k] \in DOMAIN files
       /\ idx = 1 /\ plotted = <<>> /\ output = "none"

\* C9 (step part): the log of a run that succeeded is never removed or
\* rewritten by a later step.
C9_LogsKept ==
  \A k \in 1..Len(logs) : logs[k] \in DOMAIN files' /\ files'[logs[k]] = files[logs[k]]

\* C9: if the trace.sh invocation for run i returns a non-zero status the tool
\* ends with an error at once: no invocation for an index above i, no retry of
\* i, no log parsed, no chart shown or saved, and the logs of runs 1..i-1 stay
\* in place unmodified.
C9_CollectorFailureAborts == [](C9_AbortState) /\ [][C9_LogsKept]_vars

C9_Witness ==
  /\ prog = "main" /\ pc = "raised" /\ n_runs = 2 /\ rcs = <<0, 1>>
  /\ Len(invoked) = 2 /\ RunPath(1) \in DOMAIN files /\ RunPath(2) \in DOMAIN files

\* C10: if <N> is no positive integer, or <FILE> is not in the allow-list, or
\* trace.sh does not exist, run_traces.py exits non-zero before any work:
\* trace.sh is never invoked, traces/ is not created, no log is parsed and no
\* chart is produced.
C10_ValidationBeforeWork ==
  (/\ prog = "main" /\ argv.argc >= 3
   /\ \/ ~argv.n.isint
      \/ argv.n.val <= 0
      \/ argv.file \notin {"1K.bin", "1M.bin", "1G.bin"}
      \/ ~trace_sh_exists)
    => /\ pc \in {"start", "usage_exit"}
       /\ exit_code = (IF pc = "usage_exit" THEN 1 ELSE -1)
       /\ invoked = <<>> /\ ~running /\ rcs = <<>>
       /\ ~mkdir_done /\ DOMAIN files = {}
       /\ logs = <<>> /\ idx = 1 /\ plotted = <<>> /\ output = "none"

C10_Witness ==
  /\ prog = "main" /\ pc = "usage_exit" /\ exit_code = 1
  /\ argv.file = "2M.bin" /\ argv.n = [isint |-> TRUE, val |-> 2] /\ trace_sh_exists

\* an output path argument was given on the command line
OutSupplied == IF prog = "plot" THEN argv.argc > 2 ELSE argv.argc > 3

\* C11: in both tools every invocation that reaches the output step uses
\* exactly one output mode: the chart is saved (and not shown) when an output
\* path argument was supplied, and shown (and not saved) when none was.
C11_OutputModeFollowsArgument ==
  (prog \in {"plot", "main"} /\ pc = "done")
    => output = (IF OutSupplied THEN "saved" ELSE "shown")

\* the line starts with a timestamp whose fields are no time of day
BadTime(line) ==
  line.kind # "other" /\ ~(line.ts.h <= 23 /\ line.ts.m <= 59 /\ line.ts.s <= 59)

\* the lines whose time fields a parser hands to strptime: the first
\* timestamp-prefixed line and every data line
TimeParsed(log, i) == i = FirstTs(log) \/ log[i].kind = "data"

BadParsedLine(log, n) == \E i \in 1..n : TimeParsed(log, i) /\ BadTime(log[i])

\* C12, as stated: in both parsers a line that has been read and matches the
\* timestamp or the data-line pattern, but whose time fields cannot be parsed,
\* aborts the parse with an error; it is never skipped and no chart is made.
C12_UnparsableTimeAborts ==
  (prog \in {"plot", "parse_log"} /\ \E i \in 1..pos : BadTime(lines[i]))
    => pc = "raised" /\ exc = "ValueError" /\ plotted = <<>> /\ output = "none"

\* C12, amended: in both parsers, when the first timestamp-prefixed line or a
\* data line that is read has time fields that cannot be parsed, the parse
\* aborts there with ValueError, and no chart is made of the partial series;
\* nothing else makes a parse raise.
C12_ParsedTimeAborts ==
  /\ prog \in {"plot", "parse_log"}
       => /\ BadParsedLine(lines, pos)
               => /\ pc = "raised" /\ exc = "ValueError" /\ exit_code = 1
                  /\ plotted = <<>> /\ output = "none"
          /\ pc = "raised"
               => /\ TimeParsed(lines, pos) /\ BadTime(lines[pos])
                  /\ ~BadParsedLine(lines, pos - 1)
  /\ prog = "main"
       => /\ \A k \in 1..Len(plotted) : ~BadParsedLine(files[logs[k]], Len(files[logs[k]]))
          /\ (pc = "raised" /\ AllSucceeded)
               => /\ exc = "ValueError" /\ exit_code = 1 /\ output = "none"
                  /\ BadParsedLine(files[logs[idx]], Len(files[logs[idx]]))
          /\ pc = "done"
               => \A k \in 1..Len(logs) : ~BadParsedLine(files[logs[k]], Len(files[logs[k]]))

C12_Witness ==
  /\ prog = "parse_log" /\ pc = "raised" /\ exc = "ValueError" /\ pos = 2
  /\ lines[1].kind = "ts" /\ ~BadTime(lines[1])
  /\ lines[2].kind = "data" /\ BadTime(lines[2])
  /\ times = <<>>

\* C13 (state part): a sample is only ever recorded with t0 set, and the
\* subtraction ts - t0 never meets t0 = None (it would raise TypeError).
C13_RecordedOnlyAnchored ==
  /\ exc # "TypeError"
  /\ prog \in {"plot", "parse_log"}
       => /\ (times # <<>> \/ totals # <<>> \/ total_bytes # 0) => t0 # -1
          /\ (pos >= 1 /\ pc # "raised" /\ \E i \in 1..pos : lines[i].kind = "data") => t0 # -1

\* C13 (step part): AWAITING_ANCHOR -> ANCHORED happens at most once: once
\* set, t0 stays what it is.
C13_AnchoredOnce == t0 # -1 => t0' = t0

\* C13: both parsers are a two-state machine {AWAITING_ANCHOR, ANCHORED} that
\* changes state at most once, and a data sample is only recorded in ANCHORED:
\* whenever a data line is processed t0 is already set, whatever the lines.
C13_TwoStateMachine == [](C13_RecordedOnlyAnchored) /\ [][C13_AnchoredOnce]_vars

C13_Witness ==
  /\ prog = "parse_log" /\ pc = "loop" /\ pos = 2
  /\ lines[1].kind = "other" /\ lines[2].kind = "data"
  /\ t0 # -1 /\ Len(times) = 1

\* C14 (state part): in plot.py, once the first timestamp-prefixed line is
\* read, the series starts with (0, 0), followed at once by (0, N) when that
\* line is itself a data line of N bytes, and by nothing of that line when it
\* is not.
C14_AnchorLineSamples ==
  (prog = "plot" /\ Parsing /\ pos >= FirstTs(lines))
    => LET a == lines[FirstTs(lines)]
       IN /\ times[1] = 0 /\ totals[1] = 0
          /\ IF a.kind = "data"
             THEN Len(times) >= 2 /\ times[2] = 0 /\ totals[2] = a.bytes
             ELSE pos = FirstTs(lines) => (times = <<0>> /\ totals = <<0>>)
          /\ pos = FirstTs(lines) => Len(times) = (IF a.kind = "data" THEN 2 ELSE 1)

\* C14 (step part): in both parsers, reading a line that is no data line, and
\* is not the line at which plot.py sets its anchor, adds no sample.
C14_NonDataAddsNothing ==
  (/\ prog \in {"plot", "parse_log"} /\ pc = "loop" /\ pos < Len(lines)
   /\ pos' = pos + 1
   /\ lines[pos + 1].kind # "data"
   /\ ~(prog = "plot" /\ pos + 1 = FirstTs(lines)))
    => times' = times /\ totals' = totals /\ total_bytes' = total_bytes

\* C14: in plot.py the first timestamp-prefixed line, when it is a data line
\* of N bytes, contributes the anchor sample (0, 0) and right after it the
\* data sample (0, N); when it is no data line it contributes (0, 0) alone.
\* In both parsers every other non-data line contributes no sample.
C14_AnchorLineContribution == [](C14_AnchorLineSamples) /\ [][C14_NonDataAddsNothing]_vars

C14_Witness ==
  /\ prog = "plot" /\ pc = "loop" /\ pos = 2
  /\ lines[1].kind = "other" /\ lines[2].kind = "data" /\ lines[2].bytes = 1024
  /\ times = <<0, 0>> /\ totals = <<0, 1024>>

\* C15: parse_log has no early stop: it returns only after the last line of
\* the file, and every data line, those after the total has passed 12 MiB
\* included, is a sample of the series it returns (and of the series
\* run_traces.py plots from a log).
C15_ParseLogReadsAll ==
  /\ (prog = "parse_log" /\ pc = "return")
       => /\ pos = Len(lines)
          /\ Len(times) = NData(lines, Len(lines))
          /\ Len(totals) = NData(lines, Len(lines))
          /\ total_bytes = SumData(lines, Len(lines))
          /\ totals # <<>> => totals[Len(totals)] = SumData(lines, Len(lines))
  /\ (prog = "parse_log" /\ pc = "loop" /\ pos < Len(lines)) => ENABLED parse_log_line
  /\ prog = "main"
       => \A k \in 1..Len(plotted) :
            /\ Len(plotted[k].t) = NData(files[logs[k]], Len(files[logs[k]]))
            /\ Len(plotted[k].b) = NData(files[logs[k]], Len(files[logs[k]]))

C15_Witness ==
  /\ prog = "parse_log" /\ pc = "return" /\ pos = 3
  /\ totals = <<12 * 1024 * 1024, 12 * 1024 * 1024 + 1024, 12 * 1024 * 1024 + 2048>>

\* C16: in every state of a plot.py parse at most one sample has cumulative
\* bytes above 12 MiB; such a sample is the last one and the loop has ended;
\* the loop ends before the end of the file only then, so a total of exactly
\* 12 MiB does not stop the parse.
C16_ThresholdInvariant ==
  (prog = "plot" /\ pc \notin {"start", "usage_exit"})
    => /\ Cardinality({ i \in 1..Len(totals) : totals[i] > 12 * 1024 * 1024 }) <= 1
       /\ \A i \in 1..(Len(totals) - 1) : totals[i] <= 12 * 1024 * 1024
       /\ (totals # <<>> /\ totals[Len(totals)] > 12 * 1024 * 1024)
            => pc \in {"plot", "output", "done"}
       /\ (pc \in {"plot", "output", "done"} /\ pos < Len(lines))
            => total_bytes > 12 * 1024 * 1024
       /\ pc = "loop" => total_bytes <= 12 * 1024 * 1024

C16_Witness ==
  /\ prog = "plot" /\ pc = "done" /\ pos = 3
  /\ totals = <<0, 12 * 1024 * 1024, 12 * 1024 * 1024, 12 * 1024 * 1024 + 1024>>

\* sequence a is an initial part of sequence b
IsPrefix(a, b) == Len(a) <= Len(b) /\ \A i \in 1..Len(a) : a[i] = b[i]

\* C17 (state part): a log is parsed only once all N runs have returned
\* successfully; the logs are parsed in run-index order, and the series
\* labelled "trace i" is the one parsed from the log of run i.
C17_PhaseState ==
  prog = "main"
    => /\ (idx > 1 \/ plotted # <<>> \/ pc \in {"parse", "done"})
            => /\ Len(rcs) = n_runs /\ AllSucceeded /\ ~running
               /\ Len(logs) = n_runs /\ n_runs >= 1
       /\ Len(plotted) = idx - 1
       /\ \A k \in 1..Len(plotted) :
            /\ plotted[k].label = <<"trace", k>>
            /\ RunPath(k) \in DOMAIN files
            /\ plotted[k].t = parse_log(files[RunPath(k)]).times
            /\ plotted[k].b = parse_log(files[RunPath(k)]).totals

\* C17 (step part): the list of log paths and the list of plotted series
\* only grow at their end.
C17_AppendOnly == IsPrefix(logs, logs') /\ IsPrefix(plotted, plotted')

\* C17: no log is parsed until all N collector runs have completed
\* successfully; the logs are then parsed one at a time in run-index order,
\* the series labelled "trace i" is the one parsed from the log of run i, and
\* the lists of log paths and of plotted series are append-only.
C17_PhaseOrdering == [](C17_PhaseState) /\ [][C17_AppendOnly]_vars

C17_Witness ==
  /\ prog = "main" /\ pc = "done" /\ n_runs = 2 /\ Len(plotted) = 2
  /\ plotted[1].b = <<>> /\ plotted[2].b = <<1024>>

\* the four ways an invocation of run_traces.py ends
UsageExit == pc = "usage_exit" /\ exit_code = 1 /\ exc = "none" /\ output = "none"
CollectorAbort == pc = "raised" /\ exit_code = 1 /\ exc = "CalledProcessError" /\ output = "none"
ParseError == pc = "raised" /\ exit_code = 1 /\ exc = "ValueError" /\ output = "none"
ChartEmitted == pc = "done" /\ exit_code = 0 /\ exc = "none" /\ output \in {"saved", "shown"}

Terminated == pc \in {"usage_exit", "raised", "done"}

\* the phases of main, in program order
Phase(p) ==
  IF p = "start" THEN 0
  ELSE IF p = "collect" THEN 1
  ELSE IF p = "parse" THEN 2
  ELSE 3

\* C18 (state part): a terminated invocation has exactly one of the four
\* outcomes, and a running one has none.
C18_OneOutcome ==
  LET n == (IF UsageExit THEN 1 ELSE 0) + (IF CollectorAbort THEN 1 ELSE 0)
           + (IF ParseError THEN 1 ELSE 0) + (IF ChartEmitted THEN 1 ELSE 0)
  IN n = (IF Terminated THEN 1 ELSE 0)

\* C18 (step part): no step goes back to an earlier phase, every step within
\* a phase moves on (a further invocation, a further return, a further log),
\* a failed invocation ends the tool instead of being tried again, and
\* nothing happens after the end.
C18_NoWayBack ==
  /\ ~Terminated
  /\ Phase(pc') >= Phase(pc)
  /\ Phase(pc') = Phase(pc)
       => Len(invoked') + Len(rcs') + idx' = Len(invoked) + Len(rcs) + idx + 1
  /\ (Len(rcs') > Len(rcs) /\ rcs'[Len(rcs')] # 0) => pc' = "raised"
  /\ Len(invoked') <= n_runs'

\* C18: given that every trace.sh invocation returns and every log is finite,
\* each invocation of run_traces.py eventually reaches exactly one terminal
\* outcome - usage error exit, collector-failure abort, parse error or chart
\* emitted - and never retries or goes back to an earlier phase.
C18_Termination ==
  /\ <>Terminated
  /\ [](C18_OneOutcome)
  /\ [][C18_NoWayBack]_vars

C18_Witness ==
  /\ ParseError /\ n_runs = 2 /\ rcs = <<0, 0>> /\ idx = 2 /\ Len(plotted) = 1

====
